---------------------------- MODULE Spec2Model ----------------------------
(***************************************************************************)
(* A model of cmdllm: the response parsing of LLMProcessor.process_query,  *)
(* the persisted conversation log of ContextManager, the command runner    *)
(* CommandExecutor and the turn loop of the chat command.                  *)
(*                                                                         *)
(* Text is modelled as a sequence of tokens.  A token is a TLA+ string     *)
(* that stands for a run of characters of the Python string: the markers   *)
(* "COMMAND:", "DANGEROUS:" and "ANSWER:", the blank " ", the line break   *)
(* "\n", and words.  Python's str operations are modelled on tokens by     *)
(* what they do (strip, split, startswith, replace, lower).                *)
(***************************************************************************)
EXTENDS Integers, Sequences, FiniteSets, TLC

VARIABLES
    llm_out,      \* what client.chat.completions.create produced this call
    reply,        \* what process_query returned: (response_type, response)
    file,         \* ~/.cmdllm/context.json: the persisted conversation log
    cfg_max,      \* the value of context.max_messages in the configuration
    last_op,      \* the ContextManager call that returned (or raised) last
    ctx_ret,      \* what that call returned or raised
    prior,        \* history kept when the store is driven call by call: the log
                  \* as loaded when the last update_context/clear began
    appended,     \* history, likewise: the entries the last update_context appended
    tool_type,    \* CommandExecutor.tool_type ("unset": no executor constructed)
    exe_in,       \* the last call of execute / execute_confirmed: its arguments
    exe_proc,     \* the operating system's answer to that call's subprocess.run
    exe_ret,      \* what that call returned or raised
    exe_runs,     \* the subprocess.run calls that call made
    pc,           \* where the chat command stands ("idle": no chat command runs)
    session,      \* the chat command's arguments and the configuration it loaded
    final_query,  \* final_query of the turn at hand
    request,      \* the messages of the chat.completions.create call in flight
    trace,        \* what the turn at hand did so far, in order
    command_to_log, \* the turn's command_to_log
    result_to_log,  \* the turn's result_to_log
    upd           \* per chat process sharing the store: the update_context
                  \* call it is in, between its load and its save

clsVars == <<llm_out, reply>>
ctxVars == <<file, cfg_max, last_op, ctx_ret, prior, appended>>
exeVars == <<tool_type, exe_in, exe_proc, exe_ret, exe_runs>>
chatVars == <<pc, session, final_query, request, trace, command_to_log, result_to_log>>
vars == <<llm_out, reply, file, cfg_max, last_op, ctx_ret, prior, appended,
          tool_type, exe_in, exe_proc, exe_ret, exe_runs,
          pc, session, final_query, request, trace, command_to_log, result_to_log,
          upd>>

(***************************************************************************)
(* Bounds of the model.                                                    *)
(***************************************************************************)
MaxRespLen == 5
\* update_context is not called on a log of more than MaxLog entries
MaxLog == 4
\* the integers 0..MaxWindow are the integer values given to context.max_messages
MaxWindow == 3

(***************************************************************************)
(* Python str operations on token sequences.                               *)
(***************************************************************************)
SeqsUpTo(S, n) == UNION {[1..k -> S] : k \in 0..n}

\* str.isspace() of one token: blanks and line breaks are whitespace.
IsSpace(t) == t \in {" ", "\n"}

RECURSIVE LStrip(_)
LStrip(s) == IF s # <<>> /\ IsSpace(Head(s)) THEN LStrip(Tail(s)) ELSE s

RECURSIVE RStrip(_)
RStrip(s) ==
    IF s # <<>> /\ IsSpace(s[Len(s)]) THEN RStrip(SubSeq(s, 1, Len(s) - 1)) ELSE s

\* str.strip(): leading and trailing whitespace removed.
Strip(s) == RStrip(LStrip(s))

\* str.split('\n'): the lines of s, at least one (possibly empty) line.
RECURSIVE SplitLines(_, _, _)
SplitLines(s, i, cur) ==
    IF i > Len(s) THEN <<cur>>
    ELSE IF s[i] = "\n" THEN <<cur>> \o SplitLines(s, i + 1, <<>>)
    ELSE SplitLines(s, i + 1, Append(cur, s[i]))

Split(s) == SplitLines(s, 1, <<>>)

\* str.startswith(prefix)
StartsWith(s, prefix) ==
    Len(s) >= Len(prefix) /\ SubSeq(s, 1, Len(prefix)) = prefix

\* str.replace(marker, ''): EVERY occurrence of the marker is removed.
RemoveAll(s, marker) == SelectSeq(s, LAMBDA t : t # marker)

\* str.lower() of one token, then of a string.
LowerTok_Identity(t) == t

LowerTok(t) == IF t = "TRUE" THEN "true" ELSE IF t = "EXIT" THEN "exit" ELSE t
Lower(s) == [i \in 1..Len(s) |-> LowerTok(s[i])]

(***************************************************************************)
(* LLMProcessor.process_query: the parsing of the translator's response.   *)
(***************************************************************************)
NoneV == [isNone |-> TRUE, s |-> <<>>]
Some(s) == [isNone |-> FALSE, s |-> s]
\* Python truthiness of an Optional[str]
Truthy_NotNone(o) == ~o.isNone

Truthy(o) == ~o.isNone /\ o.s # <<>>

CommandReply(c, d) == [type |-> "command", command |-> c, dangerous |-> d, text |-> <<>>]
AnswerReply(t) == [type |-> "answer", command |-> <<>>, dangerous |-> FALSE, text |-> t]
NoReply == [type |-> "none", command |-> <<>>, dangerous |-> FALSE, text |-> <<>>]

FormatNotice == "LLM response did not follow the expected format:"
LLMErrorNotice == "Error processing query with LLM: "

\* One pass of the for loop's body over one line.
ParseLine_MarkerAnywhere(st, line) ==
    IF \E i \in 1..Len(line) : line[i] = "COMMAND:"
    THEN [st EXCEPT !.command = Some(Strip(RemoveAll(line, "COMMAND:")))]
    ELSE IF \E i \in 1..Len(line) : line[i] = "DANGEROUS:"
    THEN [st EXCEPT !.is_dangerous =
              (Lower(Strip(RemoveAll(line, "DANGEROUS:"))) = <<"true">>)]
    ELSE IF \E i \in 1..Len(line) : line[i] = "ANSWER:"
    THEN [st EXCEPT !.answer = Some(Strip(RemoveAll(line, "ANSWER:")))]
    ELSE st

ParseLine(st, line) ==
    IF StartsWith(line, <<"COMMAND:">>)
    THEN [st EXCEPT !.command = Some(Strip(RemoveAll(line, "COMMAND:")))]
    ELSE IF StartsWith(line, <<"DANGEROUS:">>)
    THEN [st EXCEPT !.is_dangerous =
              (Lower(Strip(RemoveAll(line, "DANGEROUS:"))) = <<"true">>)]
    ELSE IF StartsWith(line, <<"ANSWER:">>)
    THEN [st EXCEPT !.answer = Some(Strip(RemoveAll(line, "ANSWER:")))]
    ELSE st

\* The for loop: every line is visited in order, a later match overwrites.
RECURSIVE ParseLines(_, _, _)
ParseLines(lines, i, st) ==
    IF i > Len(lines) THEN st ELSE ParseLines(lines, i + 1, ParseLine(st, lines[i]))

\* The choice of the return value after the loop.
Decide(st, response_text) ==
    IF Truthy(st.command)
    THEN IF ~Truthy(st.command)
         THEN AnswerReply(<<"LLM returned an empty command.">>)
         ELSE CommandReply(st.command.s, st.is_dangerous)
    ELSE IF Truthy(st.answer)
    THEN IF ~Truthy(st.answer)
         THEN AnswerReply(<<"LLM returned an empty answer.">>)
         ELSE AnswerReply(st.answer.s)
    ELSE AnswerReply(<<FormatNotice, "\n">> \o response_text)

ParseInit == [command |-> NoneV, is_dangerous |-> FALSE, answer |-> NoneV]

\* The try block once the translator returned `content`.
ParseResponse(content) ==
    LET response_text == Strip(content)
    IN  Decide(ParseLines(Split(response_text), 1, ParseInit), response_text)

\* _get_system_prompt: the template filled with the processor's tool_type
SystemPrompt(tool) ==
    <<"You are a ", tool, " expert. Analyze the user's query and respond appropriately:",
      "\n", "COMMAND: <the ", tool, " command>", "\n", "DANGEROUS: <true/false>",
      "\n", "ANSWER: <your detailed explanation>">>

\* The messages process_query(query, context) hands to create; context is
\* what get_context returned: None (isNone) or a list.
BuildMessages_HistoryLast(tool, context, query) ==
    <<[role |-> "system", content |-> SystemPrompt(tool)]>>
    \o <<[role |-> "user", content |-> query]>>
    \o (IF ~context.isNone /\ context.list # <<>> THEN context.list ELSE <<>>)

BuildMessages(tool, context, query) ==
    <<[role |-> "system", content |-> SystemPrompt(tool)]>>
    \o (IF ~context.isNone /\ context.list # <<>> THEN context.list ELSE <<>>)
    \o <<[role |-> "user", content |-> query]>>

\* out = [fail |-> the call raised, content |-> the message content]
ProcessQuery_NoExcept(out) == ParseResponse(out.content)

ProcessQuery(out) ==
    IF out.fail THEN AnswerReply(<<LLMErrorNotice, "APIError">>)
    ELSE ParseResponse(out.content)

(***************************************************************************)
(* Config.get_max_context_messages and the values `config set` can store.  *)
(* A stored value is an integer or a string; a string makes the unary      *)
(* minus of context[-max_messages:] raise TypeError.                       *)
(***************************************************************************)
IntVal(n) == [kind |-> "int", n |-> n]
StrVal == [kind |-> "str", n |-> 0]
DefaultMaxMessages == 20

\* cli.set: a value made of digits only becomes an int, any other stays a str
\* v = [isdigit |-> BOOLEAN, n |-> the number the digits spell]
ConvertValue(v) == IF v.isdigit THEN IntVal(v.n) ELSE StrVal

\* cli.set_context_messages: count < 1 is refused, the setting is left alone
SetContextMessagesValue(count, old) == IF count < 1 THEN old ELSE IntVal(count)

(***************************************************************************)
(* ContextManager: the persisted log.                                      *)
(* file.kind: "missing" (no file), "corrupt" (not parseable as JSON),      *)
(* "list" (a JSON list: file.entries), "notlist" (parseable JSON that is   *)
(* no list, e.g. an object or a number; file.truthy is its Python truth).  *)
(***************************************************************************)
Missing == [kind |-> "missing", entries |-> <<>>, truthy |-> FALSE]
Corrupt == [kind |-> "corrupt", entries |-> <<>>, truthy |-> FALSE]
ListFile(es) == [kind |-> "list", entries |-> es, truthy |-> es # <<>>]
NotList(t) == [kind |-> "notlist", entries |-> <<>>, truthy |-> t]

Entry(role, content) == [role |-> role, content |-> content]

Returned(isNone, list) == [exc |-> "none", isNone |-> isNone, list |-> list]
Raised(e) == [exc |-> e, isNone |-> FALSE, list |-> <<>>]
NoCall == [exc |-> "nocall", isNone |-> FALSE, list |-> <<>>]

\* Python's context[-n:] for an int n: the last n items for n >= 1; the
\* whole list for n = 0, since -0 is 0.
LastN_OneMore(context, n) ==
    IF n = 0 \/ n + 1 >= Len(context) THEN context
    ELSE SubSeq(context, Len(context) - n, Len(context))

LastN(context, n) ==
    IF n = 0 \/ n >= Len(context) THEN context
    ELSE SubSeq(context, Len(context) - n + 1, Len(context))

\* _load_context: json.load of the file; FileNotFoundError and
\* JSONDecodeError give the empty list.
LoadContext(f) ==
    IF f.kind \in {"missing", "corrupt"} THEN ListFile(<<>>) ELSE f

\* _save_context under an I/O fault: "none"; "open" (open(..., 'w') raises,
\* the file is untouched); "write" (the file was truncated by open and the
\* dump did not complete: what is left does not parse).
Faults == {"none", "open", "write"}
SaveContext(f, context, fault) ==
    CASE fault = "none" -> [exc |-> "none", file |-> ListFile(context)]
      [] fault = "open" -> [exc |-> "OSError", file |-> f]
      [] fault = "write" -> [exc |-> "OSError", file |-> Corrupt]

\* _ensure_context_file, called by __init__
EnsureContextFile(f, fault) ==
    IF f.kind = "missing" THEN SaveContext(f, <<>>, fault)
    ELSE [exc |-> "none", file |-> f]

\* get_context
GetContext(f, max) ==
    LET context == LoadContext(f)
    IN  IF ~context.truthy THEN Returned(TRUE, <<>>)
        ELSE IF max.kind # "int" THEN Raised("TypeError")
        ELSE IF context.kind # "list" THEN Raised("TypeError")
        ELSE Returned(FALSE, LastN(context.entries, max.n))

\* the assistant entry's content built by update_context
AssistantContent_KeepsSentinel(command, result) ==
    Strip(command \o <<"\n", "\n">> \o result)

AssistantContent(command, result) ==
    Strip((IF command # <<>> /\ command # <<"N/A">>
           THEN command \o <<"\n", "\n">> ELSE <<>>) \o result)

NewEntries_AssistantFirst(query, command, result) ==
    <<Entry("assistant", AssistantContent(command, result)), Entry("user", query)>>

NewEntries(query, command, result) ==
    <<Entry("user", query), Entry("assistant", AssistantContent(command, result))>>

\* update_context: [exc |-> what it raised, file |-> the file afterwards]
UpdateContext_Prepends(f, max, query, command, result, fault) ==
    LET context == LoadContext(f)
    IN  IF context.kind # "list" THEN [exc |-> "AttributeError", file |-> f]
        ELSE IF max.kind # "int" THEN [exc |-> "TypeError", file |-> f]
        ELSE SaveContext(f, LastN(NewEntries(query, command, result) \o context.entries,
                                  max.n), fault)

UpdateContext(f, max, query, command, result, fault) ==
    LET context == LoadContext(f)
    IN  IF context.kind # "list" THEN [exc |-> "AttributeError", file |-> f]
        ELSE IF max.kind # "int" THEN [exc |-> "TypeError", file |-> f]
        ELSE SaveContext(f, LastN(context.entries \o NewEntries(query, command, result),
                                  max.n), fault)

\* clear: os.remove, FileNotFoundError swallowed
ClearContext_NoExcept(f) ==
    IF f.kind = "missing" THEN [exc |-> "FileNotFoundError", file |-> f]
    ELSE [exc |-> "none", file |-> Missing]

ClearContext(f) == [exc |-> "none", file |-> Missing]

(***************************************************************************)
(* CommandExecutor.                                                        *)
(* tool_type is the text that f'{self.tool_type}' renders: Python's None   *)
(* is "None".                                                              *)
(***************************************************************************)
\* Config.get_tool_config(tool_type): [exc, type]; tools is the configured
\* list, tool the argument ("None" when the argument is left out).
GetToolConfig_AnyTool(tools, tool) == [exc |-> "none", type |-> tool]

GetToolConfig(tools, tool) ==
    IF tool # "None" /\ tool \notin tools
    THEN [exc |-> "ValueError", type |-> "None"]
    ELSE [exc |-> "none", type |-> tool]

\* CommandExecutor.__init__(config): [exc, tool_type].  arg is what the
\* caller passes as `config`:
\*   [kind |-> "Config", tools |-> ...]  a Config object
\*   [kind |-> "str"]                    a string: it has no get_tool_config
\*   [kind |-> "stub", type |-> t]       an object whose get_tool_config()
\*                                       returns {'type': t}
ExecutorInit(arg) ==
    CASE arg.kind = "Config" ->
             [exc |-> "none", tool_type |-> GetToolConfig(arg.tools, "None").type]
      [] arg.kind = "str" -> [exc |-> "AttributeError", tool_type |-> "unset"]
      [] arg.kind = "stub" -> [exc |-> "none", tool_type |-> arg.type]

\* the prefix rule of execute and execute_confirmed
AddPrefix_Always(tool, command) ==
    IF tool # "bash" THEN <<tool, " ">> \o command ELSE command

AddPrefix(tool, command) ==
    IF tool # "bash" /\ ~StartsWith(command, <<tool, " ">>)
    THEN <<tool, " ">> \o command
    ELSE command

\* shlex.split: whitespace separates the arguments, a quoted stretch is kept
\* in one argument, a quote left open raises ValueError.
RECURSIVE Shlex(_, _, _, _, _, _)
Shlex(s, i, cur, inTok, inQuote, acc) ==
    IF i > Len(s)
    THEN IF inQuote THEN [exc |-> "ValueError", args |-> <<>>]
         ELSE [exc |-> "none", args |-> IF inTok THEN Append(acc, cur) ELSE acc]
    ELSE IF s[i] = "'" THEN Shlex(s, i + 1, cur, TRUE, ~inQuote, acc)
    ELSE IF IsSpace(s[i]) /\ ~inQuote
    THEN IF inTok THEN Shlex(s, i + 1, <<>>, FALSE, FALSE, Append(acc, cur))
         ELSE Shlex(s, i + 1, cur, FALSE, FALSE, acc)
    ELSE Shlex(s, i + 1, Append(cur, s[i]), TRUE, inQuote, acc)

ShlexSplit(command) == Shlex(command, 1, <<>>, FALSE, FALSE, <<>>)

\* What the operating system can answer to subprocess.run(args).
ProcOutcomes ==
    {[kind |-> "FileNotFoundError", stdout |-> <<>>, stderr |-> <<>>, rc |-> 0],
     [kind |-> "PermissionError", stdout |-> <<>>, stderr |-> <<>>, rc |-> 0]}
    \cup [kind : {"ok"}, stdout : {<<>>, <<"out", "\n">>},
          stderr : {<<>>, <<"err", "\n">>}, rc : {0, 1}]

\* output = stdout, then a line break if both are there, then stderr
CombineOutput(stdout, stderr) ==
    LET o1 == IF stdout # <<>> THEN stdout ELSE <<>>
    IN  IF stderr # <<>>
        THEN (IF o1 # <<>> THEN o1 \o <<"\n">> ELSE o1) \o stderr
        ELSE o1

\* shlex.split .. return output: [exc, output, runs]
RunCommand_RetriesOnFailure(command, proc) ==
    LET t == ShlexSplit(command)
        run == <<[command |-> command, args |-> t.args]>>
    IN  IF t.exc # "none" THEN [exc |-> t.exc, output |-> <<>>, runs |-> <<>>]
        ELSE IF t.args = <<>> THEN [exc |-> "IndexError", output |-> <<>>, runs |-> run]
        ELSE IF proc.kind # "ok"
        THEN [exc |-> proc.kind, output |-> <<>>, runs |-> run \o run]
        ELSE [exc |-> "none", output |-> CombineOutput(proc.stdout, proc.stderr),
              runs |-> run]

RunCommand(command, proc) ==
    LET t == ShlexSplit(command)
        run == <<[command |-> command, args |-> t.args]>>
    IN  IF t.exc # "none" THEN [exc |-> t.exc, output |-> <<>>, runs |-> <<>>]
        ELSE IF t.args = <<>> THEN [exc |-> "IndexError", output |-> <<>>, runs |-> run]
        ELSE IF proc.kind # "ok" THEN [exc |-> proc.kind, output |-> <<>>, runs |-> run]
        ELSE [exc |-> "none", output |-> CombineOutput(proc.stdout, proc.stderr),
              runs |-> run]

NotFoundNotice(tool) ==
    <<"Error: '", tool, "' command not found. Please ensure ", tool,
      " is installed and in your PATH.">>
ExecuteErrorNotice == "Error executing command: "
ConfirmedErrorNotice == "Error executing confirmed command: "
ConfirmationPrompt(command) ==
    <<"This is a potentially dangerous operation!", "\n", "Command to execute: ">>
    \o command \o <<"\n", "Please confirm if you want to proceed (y/n): ">>

\* the except clauses: [exc, output]
Catch_OnlyNotFound(body, tool, notice) ==
    IF body.exc = "FileNotFoundError" THEN [exc |-> "none", output |-> NotFoundNotice(tool)]
    ELSE [exc |-> body.exc, output |-> body.output]

Catch(body, tool, notice) ==
    IF body.exc = "none" THEN [exc |-> "none", output |-> body.output]
    ELSE IF body.exc = "FileNotFoundError"
    THEN [exc |-> "none", output |-> NotFoundNotice(tool)]
    ELSE [exc |-> "none", output |-> <<notice, body.exc>>]

\* execute(command, is_dangerous): [exc, output, requires_confirmation, runs]
Execute_RunsBeforeAsking(tool, command, is_dangerous, proc) ==
    LET body == RunCommand(AddPrefix(tool, command), proc)
        c == Catch(body, tool, ExecuteErrorNotice)
    IN  IF is_dangerous
        THEN [exc |-> "none", output |-> ConfirmationPrompt(AddPrefix(tool, command)),
              requires_confirmation |-> TRUE, runs |-> body.runs]
        ELSE [exc |-> c.exc, output |-> c.output, requires_confirmation |-> FALSE,
              runs |-> body.runs]

Execute_PromptsRawCommand(tool, command, is_dangerous, proc) ==
    LET cmd == AddPrefix(tool, command)
    IN  IF is_dangerous
        THEN [exc |-> "none", output |-> ConfirmationPrompt(command),
              requires_confirmation |-> TRUE, runs |-> <<>>]
        ELSE LET body == RunCommand(cmd, proc)
                 c == Catch(body, tool, ExecuteErrorNotice)
             IN  [exc |-> c.exc, output |-> c.output, requires_confirmation |-> FALSE,
                  runs |-> body.runs]

Execute(tool, command, is_dangerous, proc) ==
    LET cmd == AddPrefix(tool, command)
    IN  IF is_dangerous
        THEN [exc |-> "none", output |-> ConfirmationPrompt(cmd),
              requires_confirmation |-> TRUE, runs |-> <<>>]
        ELSE LET body == RunCommand(cmd, proc)
                 c == Catch(body, tool, ExecuteErrorNotice)
             IN  [exc |-> c.exc, output |-> c.output, requires_confirmation |-> FALSE,
                  runs |-> body.runs]

\* execute_confirmed(command)
ExecuteConfirmed_SkipsPrefix(tool, command, proc) ==
    LET body == RunCommand(command, proc)
        c == Catch(body, tool, ConfirmedErrorNotice)
    IN  [exc |-> c.exc, output |-> c.output, requires_confirmation |-> FALSE,
         runs |-> body.runs]

ExecuteConfirmed(tool, command, proc) ==
    LET body == RunCommand(AddPrefix(tool, command), proc)
        c == Catch(body, tool, ConfirmedErrorNotice)
    IN  [exc |-> c.exc, output |-> c.output, requires_confirmation |-> FALSE,
         runs |-> body.runs]

(***************************************************************************)
(* The components at rest: what a specification that does not drive a     *)
(* component holds its variables at.                                       *)
(***************************************************************************)
NoArgs == [method |-> "none", command |-> <<>>, is_dangerous |-> FALSE]
NoProc == [kind |-> "none", stdout |-> <<>>, stderr |-> <<>>, rc |-> 0]
NoExe == [exc |-> "nocall", output |-> <<>>, requires_confirmation |-> FALSE]

\* the chat processes that share one context.json
Sessions == {"s1", "s2"}
NoUpdate == [pc |-> "idle", context |-> <<>>, query |-> <<>>, command |-> <<>>,
             result |-> <<>>, ret |-> "nocall"]
UpdIdle == upd = [s \in Sessions |-> NoUpdate]

ExeIdle ==
    /\ tool_type = "unset"
    /\ exe_in = NoArgs
    /\ exe_proc = NoProc
    /\ exe_ret = NoExe
    /\ exe_runs = <<>>

NoSession == [tool |-> "none", tools |-> {}, api_key |-> "", arg |-> "none"]
ChatIdle ==
    /\ pc = "idle"
    /\ session = NoSession
    /\ final_query = <<>>
    /\ request = <<>>
    /\ trace = <<>>
    /\ command_to_log = <<>>
    /\ result_to_log = <<>>

CtxIdle ==
    /\ file = Missing
    /\ cfg_max = IntVal(DefaultMaxMessages)
    /\ last_op = "none"
    /\ ctx_ret = NoCall
    /\ prior = <<>>
    /\ appended = <<>>

(***************************************************************************)
(* The context store driven call by call, as the chat and clear commands   *)
(* and the config commands of separate invocations drive it.               *)
(***************************************************************************)
CtxQueries == {<<"q1">>, <<"q2">>}
CtxCommands == {<<"N/A">>, <<"ls">>}
CtxResults == {<<>>, <<"out", "\n">>}
\* the update_context calls made: the result is empty for a command that
\* printed nothing (an answer is never empty)
CtxCalls ==
    {c \in [query : CtxQueries, command : CtxCommands, result : CtxResults] :
        c.result = <<>> => (c.query = <<"q1">> /\ c.command = <<"ls">>)}
CliValues == [isdigit : {TRUE}, n : 0..MaxWindow] \cup {[isdigit |-> FALSE, n |-> 0]}

ContextInit ==
    /\ file \in {Missing, Corrupt, NotList(FALSE), NotList(TRUE), ListFile(<<>>)}
    /\ cfg_max \in {IntVal(DefaultMaxMessages)} \cup {IntVal(n) : n \in 1..MaxWindow}
    /\ last_op = "none"
    /\ ctx_ret = NoCall
    /\ prior = <<>>
    /\ appended = <<>>
    /\ llm_out = [fail |-> FALSE, content |-> <<>>]
    /\ reply = NoReply
    /\ ExeIdle
    /\ ChatIdle
    /\ UpdIdle

\* ContextManager(config)
CtxNew(fault) ==
    LET r == EnsureContextFile(file, fault)
    IN  /\ file' = r.file
        /\ last_op' = "init"
        /\ ctx_ret' = IF r.exc = "none" THEN Returned(TRUE, <<>>) ELSE Raised(r.exc)
        /\ prior' = <<>> /\ appended' = <<>>
        /\ UNCHANGED <<cfg_max, clsVars, exeVars, chatVars>>
        /\ UNCHANGED upd

CtxGet_Recreates ==
    /\ last_op' = "get"
    /\ ctx_ret' = GetContext(file, cfg_max)
    /\ file' = IF file.kind = "missing" THEN ListFile(<<>>) ELSE file
    /\ UNCHANGED <<cfg_max, prior, appended, clsVars, exeVars, chatVars>>
    /\ UNCHANGED upd

CtxGet ==
    /\ last_op' = "get"
    /\ ctx_ret' = GetContext(file, cfg_max)
    /\ UNCHANGED <<file, cfg_max, prior, appended, clsVars, exeVars, chatVars>>
    /\ UNCHANGED upd

CtxUpdate(query, command, result, fault) ==
    LET r == UpdateContext(file, cfg_max, query, command, result, fault)
    IN  /\ Len(file.entries) <= MaxLog
        /\ file' = r.file
        /\ last_op' = "update"
        /\ ctx_ret' = IF r.exc = "none" THEN Returned(TRUE, <<>>) ELSE Raised(r.exc)
        /\ prior' = LoadContext(file).entries
        /\ appended' = NewEntries(query, command, result)
        /\ final_query' = query
        /\ command_to_log' = command
        /\ result_to_log' = result
        /\ UNCHANGED <<cfg_max, clsVars, exeVars, pc, session, request, trace>>
        /\ UNCHANGED upd

CtxClear ==
    LET r == ClearContext(file)
    IN  /\ file' = r.file
        /\ last_op' = "clear"
        /\ ctx_ret' = IF r.exc = "none" THEN Returned(TRUE, <<>>) ELSE Raised(r.exc)
        /\ prior' = LoadContext(file).entries /\ appended' = <<>>
        /\ UNCHANGED <<cfg_max, clsVars, exeVars, chatVars>>
        /\ UNCHANGED upd

\* cmdllm config set context.max_messages VALUE
CfgSet_Compacts(v) ==
    /\ cfg_max' = ConvertValue(v)
    /\ file' = IF file.kind = "list" /\ v.isdigit
               THEN ListFile(LastN(file.entries, v.n)) ELSE file
    /\ last_op' = "config"
    /\ UNCHANGED <<ctx_ret, prior, appended, clsVars, exeVars, chatVars>>
    /\ UNCHANGED upd

CfgSet(v) ==
    /\ cfg_max' = ConvertValue(v)
    /\ last_op' = "config"
    /\ UNCHANGED <<file, ctx_ret, prior, appended, clsVars, exeVars, chatVars>>
    /\ UNCHANGED upd

\* cmdllm config set-context-messages COUNT
CfgSetContextMessages(count) ==
    /\ cfg_max' = SetContextMessagesValue(count, cfg_max)
    /\ last_op' = "config"
    /\ UNCHANGED <<file, ctx_ret, prior, appended, clsVars, exeVars, chatVars>>
    /\ UNCHANGED upd

\* cmdllm config init, confirmed: _create_default_config rewrites config.yaml
CfgInit ==
    /\ cfg_max' = IntVal(DefaultMaxMessages)
    /\ last_op' = "config"
    /\ UNCHANGED <<file, ctx_ret, prior, appended, clsVars, exeVars, chatVars>>
    /\ UNCHANGED upd

ContextNext ==
    \/ \E fault \in Faults : CtxNew(fault)
    \/ CtxGet
    \/ \E c \in CtxCalls, fault \in Faults :
           CtxUpdate(c.query, c.command, c.result, fault)
    \/ CtxClear
    \/ \E v \in CliValues : CfgSet(v)
    \/ \E count \in 0..MaxWindow : CfgSetContextMessages(count)
    \/ CfgInit

SpecContext == ContextInit /\ [][ContextNext]_vars

(***************************************************************************)
(* Two chat processes on one context.json.  Each runs update_context as    *)
(* the code has it: _load_context, the appends in memory, then the slice   *)
(* and _save_context; no lock is taken, so the steps of the two processes  *)
(* interleave between the load and the save.                               *)
(***************************************************************************)
SessionQuery == [s \in Sessions |-> IF s = "s1" THEN <<"q1">> ELSE <<"q2">>]
\* the update_context calls of process s: its own queries, with a result
SharedCalls(s) ==
    {c \in CtxCalls : c.query = SessionQuery[s] /\ c.result # <<>>}

\* a log left by a turn of an earlier day
EarlierLog == <<Entry("user", <<"q0">>), Entry("assistant", <<"hello">>)>>

SharedInit ==
    /\ file \in {Missing, NotList(TRUE), ListFile(<<>>), ListFile(EarlierLog)}
    /\ cfg_max \in {IntVal(DefaultMaxMessages), IntVal(MaxWindow)}
    /\ last_op = "none"
    /\ ctx_ret = NoCall
    /\ prior = <<>>
    /\ appended = <<>>
    /\ llm_out = [fail |-> FALSE, content |-> <<>>]
    /\ reply = NoReply
    /\ ExeIdle
    /\ ChatIdle
    /\ UpdIdle

\* update_context up to the appends: context = self._load_context(), then
\* context.append twice, which raises on what is no list
UpdLoad(s, query, command, result) ==
    LET context == LoadContext(file)
    IN  /\ upd[s].pc = "idle"
        /\ Len(file.entries) <= MaxLog
        /\ upd' = [upd EXCEPT ![s] =
                      IF context.kind # "list"
                      THEN [pc |-> "idle", context |-> <<>>, query |-> query,
                            command |-> command, result |-> result,
                            ret |-> "AttributeError"]
                      ELSE [pc |-> "loaded", context |-> context.entries,
                            query |-> query, command |-> command,
                            result |-> result, ret |-> "nocall"]]
        /\ UNCHANGED <<clsVars, ctxVars, exeVars, chatVars>>

\* the rest of update_context: context[-max_messages:] of the list in memory
\* and _save_context.  [exc, file]
FinishUpdate_Reloads(f, max, context, new, fault) ==
    IF max.kind # "int" THEN [exc |-> "TypeError", file |-> f]
    ELSE SaveContext(f, LastN(LoadContext(f).entries \o new, max.n), fault)

FinishUpdate(f, max, context, new, fault) ==
    IF max.kind # "int" THEN [exc |-> "TypeError", file |-> f]
    ELSE SaveContext(f, LastN(context \o new, max.n), fault)

UpdSave(s, fault) ==
    LET new == NewEntries(upd[s].query, upd[s].command, upd[s].result)
        r == FinishUpdate(file, cfg_max, upd[s].context, new, fault)
    IN  /\ upd[s].pc = "loaded"
        /\ file' = r.file
        /\ last_op' = "update"
        /\ ctx_ret' = IF r.exc = "none" THEN Returned(TRUE, <<>>) ELSE Raised(r.exc)
        /\ prior' = upd[s].context
        /\ appended' = new
        /\ final_query' = upd[s].query
        /\ command_to_log' = upd[s].command
        /\ result_to_log' = upd[s].result
        /\ upd' = [upd EXCEPT ![s].pc = "idle", ![s].ret = r.exc]
        /\ UNCHANGED <<cfg_max, clsVars, exeVars, pc, session, request, trace>>

SharedNext ==
    \/ \E s \in Sessions : \E c \in SharedCalls(s) :
           UpdLoad(s, c.query, c.command, c.result)
    \/ \E s \in Sessions, fault \in Faults : UpdSave(s, fault)

SpecShared == SharedInit /\ [][SharedNext]_vars

(***************************************************************************)
(* The executor driven call by call.                                       *)
(***************************************************************************)
ToolTypes == {"bash", "kubectl", "None"}
ExeCommands ==
    {<<>>, <<"ls">>, <<"get", " ", "pods">>, <<"kubectl", " ", "get">>, <<"kubectl">>,
     <<"kubectlget">>, <<"None", " ", "ls">>, <<"bash", " ", "ls">>,
     <<"echo", " ", "'", "a", " ", "b", "'">>, <<"rm", " ", "'", "x">>}
ConfigArgs ==
    {[kind |-> "Config", tools |-> {"bash"}, type |-> "None"],
     [kind |-> "str", tools |-> {}, type |-> "None"]}
    \cup [kind : {"stub"}, tools : {{}}, type : ToolTypes]

ExecInit ==
    /\ ExeIdle
    /\ UpdIdle
    /\ CtxIdle
    /\ ChatIdle
    /\ llm_out = [fail |-> FALSE, content |-> <<>>]
    /\ reply = NoReply

\* CommandExecutor(arg)
ExeConstruct(arg) ==
    LET r == ExecutorInit(arg)
    IN  /\ tool_type' = r.tool_type
        /\ exe_in' = NoArgs /\ exe_proc' = NoProc /\ exe_runs' = <<>>
        /\ exe_ret' = [exc |-> r.exc, output |-> <<>>, requires_confirmation |-> FALSE]
        /\ UNCHANGED <<clsVars, ctxVars, chatVars>>
        /\ UNCHANGED upd

ExeExecute(command, is_dangerous, proc) ==
    LET r == Execute(tool_type, command, is_dangerous, proc)
    IN  /\ tool_type # "unset"
        /\ exe_in' = [method |-> "execute", command |-> command,
                      is_dangerous |-> is_dangerous]
        /\ exe_proc' = IF r.runs # <<>> /\ r.runs[1].args # <<>> THEN proc ELSE NoProc
        /\ exe_ret' = [exc |-> r.exc, output |-> r.output,
                       requires_confirmation |-> r.requires_confirmation]
        /\ exe_runs' = r.runs
        /\ UNCHANGED <<tool_type, clsVars, ctxVars, chatVars>>
        /\ UNCHANGED upd

ExeExecuteConfirmed(command, proc) ==
    LET r == ExecuteConfirmed(tool_type, command, proc)
    IN  /\ tool_type # "unset"
        /\ exe_in' = [method |-> "execute_confirmed", command |-> command,
                      is_dangerous |-> FALSE]
        /\ exe_proc' = IF r.runs # <<>> /\ r.runs[1].args # <<>> THEN proc ELSE NoProc
        /\ exe_ret' = [exc |-> r.exc, output |-> r.output,
                       requires_confirmation |-> r.requires_confirmation]
        /\ exe_runs' = r.runs
        /\ UNCHANGED <<tool_type, clsVars, ctxVars, chatVars>>
        /\ UNCHANGED upd

ExecNext ==
    \/ \E arg \in ConfigArgs : ExeConstruct(arg)
    \/ \E c \in ExeCommands, d \in BOOLEAN, proc \in ProcOutcomes : ExeExecute(c, d, proc)
    \/ \E c \in ExeCommands, proc \in ProcOutcomes : ExeExecuteConfirmed(c, proc)

SpecExec == ExecInit /\ [][ExecNext]_vars

(***************************************************************************)
(* The parsing on its own: every response of at most MaxRespLen tokens.    *)
(***************************************************************************)
RespTokens == {"COMMAND:", "DANGEROUS:", "ANSWER:", " ", "\n", "TRUE", "ls"}
Responses == SeqsUpTo(RespTokens, MaxRespLen)

ClassifyInit ==
    /\ llm_out \in [fail : {FALSE}, content : Responses]
                     \cup {[fail |-> TRUE, content |-> <<>>]}
    /\ reply = NoReply
    /\ CtxIdle
    /\ ExeIdle
    /\ ChatIdle
    /\ UpdIdle

Classify ==
    /\ reply = NoReply
    /\ reply' = ProcessQuery(llm_out)
    /\ UNCHANGED <<llm_out, ctxVars, exeVars, chatVars>>
    /\ UNCHANGED upd

ClassifyNext == Classify
SpecClassify == ClassifyInit /\ [][ClassifyNext]_vars

(***************************************************************************)
(* The chat command: its start-up (cli.py:29-51) and its loop.             *)
(* A step runs from one point where the command waits for the user (the    *)
(* input prompt, the confirmation) to the next.                            *)
(***************************************************************************)
Ev(e, t) == [ev |-> e, text |-> t]
RunEvents(runs) == [i \in 1..Len(runs) |-> Ev("run", runs[i].command)]
CancelNotice == "Operation cancelled by user."
NotLogged == <<"N/A">>
NoOut == [fail |-> FALSE, content |-> <<>>]
ExitWords == {<<"exit">>, <<"quit">>}
\* an input line that is neither an exit word nor empty
IsQuery(q) == Lower(q) \notin ExitWords /\ q # <<>>

\* What chat hands to CommandExecutor(...).  "str" is the call as written at
\* cli.py:48, CommandExecutor(tool_type); "Config" and "stub" are sessions
\* whose executor is built from the Config object, or from an object that
\* answers get_tool_config() with the session's tool.
ExecutorArgs(tool, tools) ==
    {[kind |-> "str", tools |-> {}, type |-> "None"],
     [kind |-> "Config", tools |-> tools, type |-> "None"],
     [kind |-> "stub", tools |-> {}, type |-> tool]}

\* the confirmation branch, cli.py:95-99: [exc, output, runs, called]
ConfirmOutcome_Inverted(tool, command, ans, proc) ==
    CASE ans = "no" ->
             LET r == ExecuteConfirmed(tool, command, proc)
             IN  [exc |-> r.exc, output |-> r.output, runs |-> r.runs, called |-> TRUE]
      [] ans = "yes" ->
             [exc |-> "none", output |-> <<CancelNotice>>, runs |-> <<>>, called |-> FALSE]
      [] ans = "abort" ->
             [exc |-> "Abort", output |-> <<>>, runs |-> <<>>, called |-> FALSE]

ConfirmOutcome(tool, command, ans, proc) ==
    CASE ans = "yes" ->
             LET r == ExecuteConfirmed(tool, command, proc)
             IN  [exc |-> r.exc, output |-> r.output, runs |-> r.runs, called |-> TRUE]
      [] ans = "no" ->
             [exc |-> "none", output |-> <<CancelNotice>>, runs |-> <<>>, called |-> FALSE]
      [] ans = "abort" ->
             [exc |-> "Abort", output |-> <<>>, runs |-> <<>>, called |-> FALSE]

\* context_manager.update_context(final_query, command_to_log, result_to_log)
\* at cli.py:126; an exception it raises is not caught and ends the command.
LogTurn(q, c, r, fault) ==
    LET u == UpdateContext(file, cfg_max, q, c, r, fault)
    IN  /\ file' = u.file
        /\ last_op' = "update"
        /\ ctx_ret' = IF u.exc = "none" THEN Returned(TRUE, <<>>) ELSE Raised(u.exc)
        /\ prior' = <<>>
        /\ appended' = IF u.exc = "none" THEN NewEntries(q, c, r) ELSE <<>>
        /\ pc' = IF u.exc = "none" THEN "prompt" ELSE "crashed"
        /\ final_query' = q
        /\ command_to_log' = c
        /\ result_to_log' = r

\* context_manager.get_context() at cli.py:67
OnlyGet ==
    /\ last_op' = "get"
    /\ ctx_ret' = GetContext(file, cfg_max)
    /\ UNCHANGED <<file, cfg_max, prior, appended>>

ExeReset ==
    /\ exe_in' = NoArgs /\ exe_proc' = NoProc /\ exe_ret' = NoExe /\ exe_runs' = <<>>
    /\ UNCHANGED tool_type

ExeRecord(method, command, is_dangerous, r, proc) ==
    /\ exe_in' = [method |-> method, command |-> command, is_dangerous |-> is_dangerous]
    /\ exe_proc' = IF r.runs # <<>> /\ r.runs[1].args # <<>> THEN proc ELSE NoProc
    /\ exe_ret' = [exc |-> r.exc, output |-> r.output,
                   requires_confirmation |-> r.requires_confirmation]
    /\ exe_runs' = r.runs
    /\ UNCHANGED tool_type

\* what click.echo shows when the guarded block ends: the result, or the
\* error line of the except branch (cli.py:68-70, 103-111)
ShowOutcome_SilentOnError(prefix, exc, result) ==
    IF exc = "none" THEN <<Ev("result", result)>> ELSE <<>>

ShowOutcome(prefix, exc, result) ==
    IF exc = "none" THEN <<Ev("result", result)>>
    ELSE <<Ev("error", <<prefix, exc>>)>>

\* LLMProcessor._init_openai_compatible_client: the api_key of the
\* configuration is refused when it is missing, empty or the placeholder
ApiKeys == {"", "your_api_key_here", "sk-1"}
InitClient(api_key) ==
    IF api_key = "" \/ api_key = "your_api_key_here"
    THEN [exc |-> "ValueError"] ELSE [exc |-> "none"]

ChatTools == {"bash", "kubectl", "helm"}
ChatToolLists == {{"bash", "kubectl"}}
\* the answers of the operating system the chat is run against
ChatProcs ==
    {p \in ProcOutcomes :
        \/ p.kind # "ok"
        \/ p.stdout # <<>> /\ (p.rc = 1 <=> p.stderr # <<>>)
        \/ p.stdout = <<>> /\ p.stderr = <<>> /\ p.rc = 0}
ChatQueries == {<<>>, <<"EXIT">>, <<"quit">>, <<"q1">>, <<"q2">>}
ChatResponses ==
    {[fail |-> TRUE, content |-> <<>>],
     [fail |-> FALSE, content |-> <<"COMMAND:", " ", "ls", "\n", "DANGEROUS:", " ", "false">>],
     [fail |-> FALSE, content |-> <<"COMMAND:", " ", "rm", " ", "x", "\n", "DANGEROUS:", " ", "TRUE">>],
     [fail |-> FALSE, content |-> <<"COMMAND:", " ", "kubectl", " ", "delete", "\n",
                                   "DANGEROUS:", " ", "true">>],
     [fail |-> FALSE, content |-> <<"COMMAND:", " ", "rm", " ", "'", "x", "\n",
                                   "DANGEROUS:", " ", "true">>],
     [fail |-> FALSE, content |-> <<"ANSWER:", " ", "hello">>],
     [fail |-> FALSE, content |-> <<"I am not sure">>]}
\* process_query on each of them, worked out once
ReplyOf == [out \in ChatResponses |-> ProcessQuery(out)]
ChatWindows == {IntVal(1), IntVal(2), StrVal}
Answers == {"yes", "no", "abort"}

\* a log left by an earlier session
SavedLog == <<Entry("user", <<"q2">>), Entry("assistant", <<"hello">>)>>

Init ==
    /\ pc = "start"
    /\ session = NoSession
    /\ final_query = <<>> /\ request = <<>> /\ trace = <<>>
    /\ command_to_log = <<>> /\ result_to_log = <<>>
    /\ file \in {Missing, Corrupt, NotList(FALSE), NotList(TRUE), ListFile(<<>>),
                 ListFile(SavedLog)}
    /\ cfg_max \in ChatWindows
    /\ last_op = "none" /\ ctx_ret = NoCall /\ prior = <<>> /\ appended = <<>>
    /\ ExeIdle
    /\ UpdIdle
    /\ llm_out = NoOut /\ reply = NoReply

\* chat(tool_type) up to the loop
ChatStart(tool, tools, api_key, arg, fault) ==
    LET t == GetToolConfig(tools, tool)
        e == EnsureContextFile(file, fault)
        c == InitClient(api_key)
        x == ExecutorInit(arg)
    IN  /\ pc = "start"
        /\ session' = [tool |-> tool, tools |-> tools, api_key |-> api_key,
                       arg |-> arg.kind]
        /\ IF t.exc # "none"
           THEN /\ pc' = "refused"
                /\ trace' = <<Ev("echo", <<"Configuration error: ", t.exc>>)>>
                /\ UNCHANGED <<file, tool_type>>
           ELSE IF e.exc # "none"
           THEN /\ pc' = "crashed"
                /\ trace' = <<Ev("raise", <<e.exc>>)>>
                /\ file' = e.file
                /\ UNCHANGED tool_type
           ELSE IF c.exc # "none"
           THEN /\ pc' = "refused"
                /\ trace' = <<Ev("echo", <<"LLM initialization error: ", c.exc>>)>>
                /\ file' = e.file
                /\ UNCHANGED tool_type
           ELSE IF x.exc # "none"
           THEN /\ pc' = "crashed"
                /\ trace' = <<Ev("raise", <<x.exc>>)>>
                /\ file' = e.file
                /\ UNCHANGED tool_type
           ELSE /\ pc' = "prompt"
                /\ trace' = <<>>
                /\ file' = e.file
                /\ tool_type' = x.tool_type
        /\ UNCHANGED <<cfg_max, last_op, ctx_ret, prior, appended, clsVars,
                       exe_in, exe_proc, exe_ret, exe_runs,
                       final_query, request, command_to_log, result_to_log>>
        /\ UNCHANGED upd

\* the input is an exit word: the loop ends
ChatExit(q) ==
    /\ pc = "prompt"
    /\ Lower(q) \in ExitWords
    /\ pc' = "exited"
    /\ final_query' = q
    /\ trace' = <<Ev("input", q), Ev("echo", <<"Exiting chat session.">>)>>
    /\ command_to_log' = <<>> /\ result_to_log' = <<>>
    /\ UNCHANGED <<session, request, clsVars, ctxVars, exeVars>>
    /\ UNCHANGED upd

\* the input is empty: back to the prompt
ChatEmpty(q) ==
    /\ pc = "prompt"
    /\ Lower(q) \notin ExitWords /\ q = <<>>
    /\ pc' = "prompt"
    /\ final_query' = q
    /\ trace' = <<Ev("input", q)>>
    /\ command_to_log' = <<>> /\ result_to_log' = <<>>
    /\ UNCHANGED <<session, request, clsVars, ctxVars, exeVars>>
    /\ UNCHANGED upd

\* click.prompt raises Abort (end of input, Ctrl-C): the command ends
ChatAbort ==
    /\ pc = "prompt"
    /\ pc' = "aborted"
    /\ final_query' = <<>>
    /\ trace' = <<Ev("raise", <<"Abort">>)>>
    /\ command_to_log' = <<>> /\ result_to_log' = <<>>
    /\ UNCHANGED <<session, request, clsVars, ctxVars, exeVars>>
    /\ UNCHANGED upd

\* get_context raises inside the try of cli.py:66-70
ChatContextError(q) ==
    /\ pc = "prompt" /\ IsQuery(q)
    /\ GetContext(file, cfg_max).exc # "none"
    /\ pc' = "prompt"
    /\ final_query' = q
    /\ trace' = <<Ev("input", q)>>
                \o ShowOutcome("Error during LLM processing: ",
                               GetContext(file, cfg_max).exc, <<>>)
    /\ command_to_log' = <<>> /\ result_to_log' = <<>>
    /\ llm_out' = NoOut /\ reply' = NoReply
    /\ OnlyGet /\ ExeReset
    /\ UNCHANGED <<session, request>>
    /\ UNCHANGED upd

\* get_context returned and process_query sent the request: the turn waits
\* for the translator
ChatTranslate(q) ==
    /\ pc = "prompt" /\ IsQuery(q)
    /\ GetContext(file, cfg_max).exc = "none"
    /\ pc' = "translating"
    /\ final_query' = q
    /\ request' = BuildMessages(session.tool, GetContext(file, cfg_max), q)
    /\ trace' = <<Ev("input", q), Ev("translate", <<>>)>>
    /\ command_to_log' = <<>> /\ result_to_log' = <<>>
    /\ llm_out' = NoOut /\ reply' = NoReply
    /\ OnlyGet /\ ExeReset
    /\ UNCHANGED session
    /\ UNCHANGED upd

\* the response is an answer (also the fallbacks of process_query)
ChatAnswer(out, fault) ==
    LET rep == ReplyOf[out]
    IN  /\ pc = "translating"
        /\ rep.type = "answer"
        /\ llm_out' = out /\ reply' = rep /\ request' = <<>>
        /\ trace' = trace \o <<Ev("answer", rep.text), Ev("update_context", <<>>)>>
        /\ LogTurn(final_query, NotLogged, rep.text, fault)
        /\ UNCHANGED <<session, cfg_max, exeVars>>
        /\ UNCHANGED upd

\* the response is a command and execute asks for no confirmation
ChatRun(out, proc, fault) ==
    LET rep == ReplyOf[out]
        r == Execute(tool_type, rep.command, rep.dangerous, proc)
        result == IF r.exc = "none" THEN r.output ELSE <<ExecuteErrorNotice, r.exc>>
    IN  /\ pc = "translating"
        /\ rep.type = "command"
        /\ ~(r.exc = "none" /\ r.requires_confirmation)
        /\ llm_out' = out /\ reply' = rep /\ request' = <<>>
        /\ trace' = trace \o <<Ev("suggest", rep.command), Ev("execute", rep.command)>>
                    \o RunEvents(r.runs)
                    \o ShowOutcome("Error during command execution: ", r.exc, result)
                    \o <<Ev("update_context", <<>>)>>
        /\ ExeRecord("execute", rep.command, rep.dangerous, r, proc)
        /\ LogTurn(final_query, rep.command, result, fault)
        /\ UNCHANGED <<session, cfg_max>>
        /\ UNCHANGED upd

\* the response is a command and execute asks for the confirmation
ChatAsk(out, proc) ==
    LET rep == ReplyOf[out]
        r == Execute(tool_type, rep.command, rep.dangerous, proc)
    IN  /\ pc = "translating"
        /\ rep.type = "command"
        /\ r.exc = "none" /\ r.requires_confirmation
        /\ llm_out' = out /\ reply' = rep /\ request' = <<>>
        /\ pc' = "confirm"
        /\ command_to_log' = rep.command /\ result_to_log' = NotLogged
        /\ trace' = trace \o <<Ev("suggest", rep.command), Ev("execute", rep.command)>>
                    \o RunEvents(r.runs)
                    \o <<Ev("confirm_prompt", r.output)>>
        /\ ExeRecord("execute", rep.command, rep.dangerous, r, proc)
        /\ UNCHANGED <<session, final_query, ctxVars>>
        /\ UNCHANGED upd

\* the user answers click.confirm (or aborts it)
ChatConfirm(ans, proc, fault) ==
    LET o == ConfirmOutcome(tool_type, reply.command, ans, proc)
        result == IF o.exc = "none" THEN o.output ELSE <<ExecuteErrorNotice, o.exc>>
    IN  /\ pc = "confirm"
        /\ trace' = trace \o <<Ev("confirm", <<ans>>)>>
                    \o (IF o.called THEN <<Ev("execute_confirmed", reply.command)>>
                        ELSE <<>>)
                    \o RunEvents(o.runs)
                    \o ShowOutcome("Error during command execution: ", o.exc, result)
                    \o <<Ev("update_context", <<>>)>>
        /\ IF o.called
           THEN ExeRecord("execute_confirmed", reply.command, FALSE,
                          [exc |-> o.exc, output |-> o.output,
                           requires_confirmation |-> FALSE, runs |-> o.runs], proc)
           ELSE UNCHANGED exeVars
        /\ LogTurn(final_query, command_to_log, result, fault)
        /\ UNCHANGED <<session, cfg_max, clsVars, request>>
        /\ UNCHANGED upd

Next ==
    \/ \E tool \in ChatTools, tools \in ChatToolLists, api_key \in ApiKeys,
          fault \in Faults :
           \E arg \in ExecutorArgs(tool, tools) : ChatStart(tool, tools, api_key, arg, fault)
    \/ \E q \in ChatQueries : ChatExit(q)
    \/ \E q \in ChatQueries : ChatEmpty(q)
    \/ ChatAbort
    \/ \E q \in ChatQueries : ChatContextError(q)
    \/ \E q \in ChatQueries : ChatTranslate(q)
    \/ \E out \in ChatResponses, fault \in Faults : ChatAnswer(out, fault)
    \/ \E out \in ChatResponses, proc \in ChatProcs, fault \in Faults :
           ChatRun(out, proc, fault)
    \/ \E out \in ChatResponses, proc \in ChatProcs : ChatAsk(out, proc)
    \/ \E ans \in Answers, proc \in ChatProcs, fault \in Faults :
           ChatConfirm(ans, proc, fault)

Spec == Init /\ [][Next]_vars

(***************************************************************************)
(* Claims about the parsing.                                               *)
(***************************************************************************)
\* sub occurs in text as a contiguous run
Contains(text, sub) ==
    \E i \in 0..(Len(text) - Len(sub)) : SubSeq(text, i + 1, i + Len(sub)) = sub

Classified == reply # NoReply /\ ~llm_out.fail
RawLines == Split(llm_out.content)
TrimmedLines == Split(Strip(llm_out.content))
\* the text after a one-token marker at the head of a line, trimmed
AfterPrefix(line) == Strip(Tail(line))
HasMarkerLine(lines, marker) == \E i \in 1..Len(lines) : StartsWith(lines[i], <<marker>>)
SaysTrue(lines) ==
    \E j \in 1..Len(lines) :
        /\ StartsWith(lines[j], <<"DANGEROUS:">>)
        /\ Lower(AfterPrefix(lines[j])) = <<"true">>

\* C7: a response with a COMMAND: line of non-empty text is classified as a
\* Command whose text is the trimmed remainder of such a line after the
\* prefix, dangerous exactly when some DANGEROUS: line says "true"
\* (case-insensitively).
C7_CommandLineClassified ==
    Classified =>
        LET cmd == {i \in 1..Len(RawLines) :
                       /\ StartsWith(RawLines[i], <<"COMMAND:">>)
                       /\ AfterPrefix(RawLines[i]) # <<>>}
        IN  cmd # {} =>
                /\ reply.type = "command"
                /\ \E i \in cmd : reply.command = AfterPrefix(RawLines[i])
                /\ reply.dangerous = SaysTrue(RawLines)

\* C8 as stated: when no line of the response begins with COMMAND: or
\* ANSWER:, the result is an Answer that opens with the format notice and
\* contains the response text verbatim.
C8_FallbackOnRawText ==
    (Classified /\ ~HasMarkerLine(RawLines, "COMMAND:") /\ ~HasMarkerLine(RawLines, "ANSWER:"))
        => /\ reply.type = "answer"
           /\ reply.text # <<>> /\ reply.text[1] = FormatNotice
           /\ Contains(reply.text, llm_out.content)

\* C8 amended: when no line of the response, trimmed of surrounding
\* whitespace as a whole, begins with COMMAND: or ANSWER:, the result is an
\* Answer made of the format notice, a line break and the trimmed response.
C8_FallbackOnTrimmedText ==
    (Classified /\ ~HasMarkerLine(TrimmedLines, "COMMAND:")
                /\ ~HasMarkerLine(TrimmedLines, "ANSWER:"))
        => reply = AnswerReply(<<FormatNotice, "\n">> \o Strip(llm_out.content))

\* C8 witness: a fallback Answer for a response that holds a marker inside
\* a line and a DANGEROUS: line, yet no COMMAND: or ANSWER: line.
C8_Witness ==
    /\ Classified
    /\ llm_out.content = <<"ls", "COMMAND:", "\n", "DANGEROUS:", "TRUE">>
    /\ reply.type = "answer"
    /\ reply.text = <<FormatNotice, "\n">> \o llm_out.content

(***************************************************************************)
(* Claims about the context store.                                         *)
(***************************************************************************)
PositiveMax == cfg_max.kind = "int" /\ cfg_max.n >= 1
UpdateReturned == last_op = "update" /\ ctx_ret.exc = "none"
\* the last n items of s, for n <= Len(s)
Suffix(s, n) == [i \in 1..n |-> s[Len(s) - n + i]]
\* the entries of the persisted log; a file that is missing or does not
\* parse holds none
PersistedEntries == IF file.kind = "list" THEN file.entries ELSE <<>>

\* C4: for a positive maxMessages, once update_context has returned,
\* get_context returns without error and returns at most maxMessages entries.
C4_RecentWithinWindow ==
    (UpdateReturned /\ PositiveMax) =>
        LET g == GetContext(file, cfg_max)
        IN  g.exc = "none" /\ ~g.isNone /\ Len(g.list) <= cfg_max.n

\* C4 witness: an update on a log that already filled a window of 2.
C4_Witness ==
    /\ UpdateReturned /\ cfg_max = IntVal(2) /\ Len(prior) = 2
    /\ Len(GetContext(file, cfg_max).list) = 2

\* C5: (maxMessages positive) when the prior log and the two new entries
\* together exceed maxMessages, get_context after the update returns exactly
\* the last maxMessages entries of prior-then-new, oldest first.
C5_RecentIsLastWindow ==
    (UpdateReturned /\ PositiveMax /\ Len(prior) + Len(appended) > cfg_max.n) =>
        GetContext(file, cfg_max) = Returned(FALSE, Suffix(prior \o appended, cfg_max.n))

\* C5 witness: a window of 3 over a prior log of 3 keeps the newest prior
\* entry and the two new ones.
C5_Witness ==
    /\ UpdateReturned /\ cfg_max = IntVal(3) /\ Len(prior) = 3
    /\ prior[3] # appended[2]
    /\ GetContext(file, cfg_max).list = <<prior[3], appended[1], appended[2]>>

\* C6: clear raises nothing and leaves no persisted log, whatever the store
\* held; and get_context returns None exactly when the persisted log (a
\* list, or no readable file) has no entries.
C6_ClearThenAbsent ==
    /\ last_op = "clear" =>
           /\ ctx_ret.exc = "none"
           /\ PersistedEntries = <<>>
           /\ GetContext(file, cfg_max) = Returned(TRUE, <<>>)
    /\ (last_op = "get" /\ file.kind # "notlist") =>
           ((ctx_ret.exc = "none" /\ ctx_ret.isNone) <=> PersistedEntries = <<>>)

\* C6 witness: clear has just removed a log that held entries.
C6_Witness ==
    /\ last_op = "clear" /\ ctx_ret.exc = "none" /\ Len(prior) >= 2
    /\ GetContext(file, cfg_max).isNone

(***************************************************************************)
(* Claims about the executor.                                              *)
(***************************************************************************)
ExeCalled == exe_in.method \in {"execute", "execute_confirmed"}
\* the command the claim expects to be run
Expected(tool, c) ==
    IF tool = "bash" THEN c
    ELSE IF Len(c) >= 2 /\ c[1] = tool /\ c[2] = " " THEN c
    ELSE <<tool, " ">> \o c

\* C9: each subprocess.run a call makes is given the tokens of: the tool
\* identifier, a blank and the command, when the tool is not "bash" and the
\* command does not begin with the identifier and a blank; the command
\* unmodified otherwise.
C9_ToolPrefix ==
    ExeCalled =>
        \A i \in 1..Len(exe_runs) :
            /\ exe_runs[i].command = Expected(tool_type, exe_in.command)
            /\ exe_runs[i].args = ShlexSplit(Expected(tool_type, exe_in.command)).args

\* C9 witness: tool "kubectl" ran "kubectl get pods" for the command
\* "get pods".
C9_Witness ==
    /\ tool_type = "kubectl" /\ exe_in.command = <<"get", " ", "pods">>
    /\ Len(exe_runs) = 1
    /\ exe_runs[1].args = <<<<"kubectl">>, <<"get">>, <<"pods">>>>

\* a quote left open in the command that is tokenized
OpenQuote(c) == Cardinality({i \in 1..Len(c) : c[i] = "'"}) % 2 = 1

\* C10: execute and execute_confirmed never raise.  A missing executable
\* gives the not-found notice naming the tool; a tokenization error or
\* another launch error gives the method's error notice; a process that
\* ran, whatever its exit status, gives its captured output.
C10_NeverRaises ==
    ExeCalled =>
        /\ exe_ret.exc = "none"
        /\ (exe_proc.kind = "FileNotFoundError")
               => exe_ret.output = NotFoundNotice(tool_type)
        /\ (exe_proc.kind = "PermissionError" \/
            (~exe_ret.requires_confirmation
                 /\ OpenQuote(Expected(tool_type, exe_in.command))))
               => /\ Len(exe_ret.output) = 2
                  /\ exe_ret.output[1] =
                         (IF exe_in.method = "execute" THEN ExecuteErrorNotice
                          ELSE ConfirmedErrorNotice)
        /\ (exe_proc.kind = "ok")
               => exe_ret.output =
                      (IF exe_proc.stdout # <<>> /\ exe_proc.stderr # <<>>
                       THEN exe_proc.stdout \o <<"\n">> \o exe_proc.stderr
                       ELSE exe_proc.stdout \o exe_proc.stderr)

\* C10 witness: execute_confirmed turned a launch error into its notice.
C10_Witness ==
    /\ exe_in.method = "execute_confirmed" /\ Len(exe_runs) = 1
    /\ exe_proc.kind = "PermissionError"
    /\ exe_ret = [exc |-> "none", requires_confirmation |-> FALSE,
                  output |-> <<ConfirmedErrorNotice, "PermissionError">>]

(***************************************************************************)
(* Claims about the turn loop.  The loop is reached in the sessions whose  *)
(* executor was constructed (session.arg is "Config" or "stub"); with the  *)
(* call as written at cli.py:48 (session.arg = "str") the constructor      *)
(* raises and the command ends before the first prompt.                    *)
(***************************************************************************)
Count(e) == Cardinality({i \in 1..Len(trace) : trace[i].ev = e})
Answered(a) == \E i \in 1..Len(trace) : trace[i] = Ev("confirm", <<a>>)
\* what a process that ran leaves as output
Captured(p) ==
    IF p.stdout # <<>> /\ p.stderr # <<>> THEN p.stdout \o <<"\n">> \o p.stderr
    ELSE p.stdout \o p.stderr

\* C1: in a turn whose command was flagged dangerous, every subprocess.run
\* comes after the confirmation prompt for the command it runs was shown and
\* after the user answered yes; and a call execute(command, True) makes no
\* subprocess.run and returns requires_confirmation = True with a prompt
\* that contains the command.
C1_LaunchOnlyAfterYes ==
    /\ \A i \in 1..Len(trace) :
           (trace[i].ev = "run" /\ reply.type = "command" /\ reply.dangerous) =>
               \E j, k \in 1..Len(trace) :
                   /\ j < k /\ k < i
                   /\ trace[j] = Ev("confirm_prompt", ConfirmationPrompt(trace[i].text))
                   /\ trace[k] = Ev("confirm", <<"yes">>)
    /\ (exe_in.method = "execute" /\ exe_in.is_dangerous) =>
           /\ exe_runs = <<>>
           /\ exe_ret.exc = "none" /\ exe_ret.requires_confirmation
           /\ Contains(exe_ret.output, exe_in.command)
    /\ pc = "confirm" => (Count("run") = 0 /\ exe_in.method = "execute" /\ exe_in.is_dangerous)

\* C1 witness: a dangerous "rm x" was launched by a bash session, after yes.
C1_Witness ==
    /\ reply.type = "command" /\ reply.dangerous /\ tool_type = "bash"
    /\ \E i \in 1..Len(trace) : trace[i] = Ev("run", <<"rm", " ", "x">>)

\* C2: once the user has answered no, the turn's result is the cancellation
\* notice, the turn made no subprocess.run and no execute_confirmed call,
\* and update_context was called with the query, the command and the
\* notice; when that call returned, the last entry of the persisted log is
\* the assistant entry holding the command, a blank line and the notice
\* (the command text is left out when it is the sentinel "N/A" itself) and,
\* in a window of two or more, the entry before it is the user's query.
C2_NoMeansCancelled ==
    Answered("no") =>
        /\ result_to_log = <<CancelNotice>>
        /\ Count("run") = 0 /\ Count("execute_confirmed") = 0
        /\ exe_in.method = "execute" /\ exe_runs = <<>>
        /\ Count("update_context") = 1 /\ last_op = "update"
        /\ command_to_log = reply.command
        /\ ctx_ret.exc = "none" =>
               LET n == Len(file.entries)
               IN  /\ pc = "prompt" /\ file.kind = "list" /\ n >= 1
                   /\ file.entries[n].role = "assistant"
                   /\ file.entries[n].content =
                          (IF reply.command # NotLogged
                           THEN reply.command \o <<"\n", "\n">> ELSE <<>>)
                          \o <<CancelNotice>>
                   /\ cfg_max.n >= 2 =>
                          (n >= 2 /\ file.entries[n - 1] = Entry("user", final_query))

\* C2 witness: "rm x" was refused and the turn is in the log.
C2_Witness ==
    /\ Answered("no") /\ pc = "prompt" /\ ctx_ret.exc = "none"
    /\ cfg_max = IntVal(2)
    /\ file.entries = <<Entry("user", <<"q1">>),
                        Entry("assistant", <<"rm", " ", "x", "\n", "\n", CancelNotice>>)>>

\* C3: once the user has answered yes, execute_confirmed was called exactly
\* once, with the command as classified; it made at most one subprocess.run,
\* exactly one when the command tokenizes, of the command under the prefix
\* rule; and the turn's result is what execute_confirmed returned: the
\* captured output when the process ran.
C3_YesRunsOnce ==
    Answered("yes") =>
        /\ Count("execute_confirmed") = 1
        /\ \A i \in 1..Len(trace) :
               trace[i].ev = "execute_confirmed" => trace[i].text = reply.command
        /\ exe_in = [method |-> "execute_confirmed", command |-> reply.command,
                     is_dangerous |-> FALSE]
        /\ Count("run") = Len(exe_runs) /\ Len(exe_runs) <= 1
        /\ ~OpenQuote(reply.command) => Len(exe_runs) = 1
        /\ \A i \in 1..Len(exe_runs) :
               exe_runs[i].command = Expected(tool_type, reply.command)
        /\ exe_ret.exc = "none" /\ result_to_log = exe_ret.output
        /\ exe_proc.kind = "ok" => result_to_log = Captured(exe_proc)
        /\ \E i \in 1..Len(trace) : trace[i] = Ev("result", result_to_log)

\* C3 witness: a kubectl session ran "kubectl rm x" after yes and the turn's
\* result is the process's output.
C3_Witness ==
    /\ Answered("yes") /\ tool_type = "kubectl" /\ Len(exe_runs) = 1
    /\ exe_runs[1].command = <<"kubectl", " ", "rm", " ", "x">>
    /\ exe_proc.kind = "ok" /\ exe_proc.stderr # <<>>
    /\ result_to_log = <<"out", "\n", "\n", "err", "\n">>

(***************************************************************************)
(* Claims about the turn loop: termination, outcomes, start-up.            *)
(***************************************************************************)
\* the loop began: the executor was constructed and the first prompt shown
LoopStarted == tool_type # "unset"

\* C11: once the loop has started, the command is at the prompt, waiting for
\* the translator or for the confirmation, or has ended on an exit word (or
\* on the user interrupting the prompt): no error inside a turn ends it.
C11_OnlyExitEndsLoop ==
    LoopStarted => pc \in {"prompt", "translating", "confirm", "exited", "aborted"}

\* the input lines that equal an exit word, whatever the case of the letters
\* (the letter cases the model's inputs use)
ExitInputs == {<<"exit">>, <<"EXIT">>, <<"quit">>, <<"QUIT">>}
\* the turn at hand was begun by a query: an input neither empty nor an exit word
QueryTurn ==
    /\ trace # <<>> /\ trace[1].ev = "input"
    /\ trace[1].text # <<>> /\ trace[1].text \notin ExitInputs
OutcomeEvents == {i \in 1..Len(trace) : trace[i].ev \in {"result", "answer", "error"}}

\* C12: when a turn begun by a query is back at the prompt, exactly one
\* outcome text was shown in it (the execution result, the cancellation
\* notice, the answer or an error line), it was shown after everything else
\* the turn did but the recording, and it is empty only when the command ran
\* and printed nothing; while the turn waits for the translator or for the
\* confirmation, no outcome was shown yet.
C12_OneOutcomePerTurn ==
    QueryTurn =>
        /\ pc \in {"prompt", "crashed"} =>
               /\ Cardinality(OutcomeEvents) = 1
               /\ \A i \in OutcomeEvents :
                      /\ \A j \in (i + 1)..Len(trace) : trace[j].ev = "update_context"
                      /\ trace[i].text = <<>> =>
                             /\ trace[i].ev = "result" /\ exe_proc.kind = "ok"
                             /\ exe_proc.stdout = <<>> /\ exe_proc.stderr = <<>>
        /\ pc \in {"translating", "confirm"} => OutcomeEvents = {}

\* C12 witness: a turn that failed (click.confirm was interrupted) is back at
\* the prompt with its error line shown.
C12_Witness ==
    /\ pc = "prompt" /\ QueryTurn
    /\ \E i \in 1..Len(trace) : trace[i] = Ev("confirm", <<"abort">>)
    /\ trace[Len(trace) - 1] = Ev("error", <<"Error during command execution: ", "Abort">>)

\* the session was asked for a tool that is not configured, or has no usable
\* api key
UnknownTool == session.arg # "none" /\ session.tool \notin session.tools
NoCredentials == session.arg # "none" /\ session.api_key \in {"", "your_api_key_here"}
NothingDone ==
    /\ llm_out = NoOut /\ request = <<>> /\ reply = NoReply
    /\ exe_runs = <<>> /\ exe_in = NoArgs /\ tool_type = "unset"
    /\ last_op = "none"
    /\ \A i \in 1..Len(trace) :
           trace[i].ev \notin {"input", "translate", "run", "update_context"}

KeepLast(s, n) == IF Len(s) <= n THEN s ELSE Suffix(s, n)
\* the command (unless it is the sentinel), a blank line, the result: trimmed
RecordedText ==
    Strip((IF command_to_log # <<"N/A">> THEN command_to_log \o <<"\n", "\n">> ELSE <<>>)
          \o result_to_log)

\* C14: an update_context call that returned appended exactly two entries to
\* the log it loaded: the user entry holding the query, then the assistant
\* entry holding the command (left out when it is the "N/A" sentinel of an
\* answer turn), a blank line and the result, trimmed; what is persisted is
\* the last maxMessages entries of the log so extended.
C14_TwoEntriesPerTurn ==
    (UpdateReturned /\ PositiveMax) =>
        LET two == <<Entry("user", final_query), Entry("assistant", RecordedText)>>
        IN  /\ appended = two
            /\ PersistedEntries = KeepLast(prior \o two, cfg_max.n)

\* C14 witness: a command turn was appended to a log of two entries, and an
\* answer turn before it left the answer text only.
C14_Witness ==
    /\ UpdateReturned /\ cfg_max = IntVal(DefaultMaxMessages)
    /\ Len(prior) = 2 /\ prior[2] = Entry("assistant", <<"out">>)
    /\ command_to_log = <<"ls">>
    /\ file.entries = prior \o <<Entry("user", <<"q1">>),
                                 Entry("assistant", <<"ls", "\n", "\n", "out">>)>>

(***************************************************************************)
(* Claims about repeated and empty markers.                                *)
(***************************************************************************)
MarkerLines(marker) ==
    {i \in 1..Len(TrimmedLines) : StartsWith(TrimmedLines[i], <<marker>>)}
\* what the parsing takes from a line that begins with marker
Extracted(line, marker) == Strip(RemoveAll(line, marker))
FirstOf(marker) ==
    LET i == CHOOSE i \in MarkerLines(marker) : \A j \in MarkerLines(marker) : i <= j
    IN  Extracted(TrimmedLines[i], marker)
LastOf(marker) ==
    LET i == CHOOSE i \in MarkerLines(marker) : \A j \in MarkerLines(marker) : i >= j
    IN  Extracted(TrimmedLines[i], marker)
Repeated(marker) == Cardinality(MarkerLines(marker)) > 1
IsFallback == reply.type = "answer" /\ reply.text # <<>> /\ reply.text[1] = FormatNotice

\* C15: when more than one line begins with COMMAND: (DANGEROUS:, ANSWER:),
\* the command text (the dangerous flag, the answer text) returned is the
\* one of the first such line.
C15_FirstLineWins ==
    Classified =>
        /\ (reply.type = "command" /\ Repeated("COMMAND:")) =>
               reply.command = FirstOf("COMMAND:")
        /\ (reply.type = "command" /\ Repeated("DANGEROUS:")) =>
               reply.dangerous = (Lower(FirstOf("DANGEROUS:")) = <<"true">>)
        /\ (reply.type = "answer" /\ ~IsFallback /\ Repeated("ANSWER:")) =>
               reply.text = FirstOf("ANSWER:")

\* the parsing extracted no text for marker: no line begins with it, or the
\* line it keeps (the last one) has nothing left after the marker
NoText(marker) == MarkerLines(marker) = {} \/ LastOf(marker) = <<>>
EmptyText(marker) == MarkerLines(marker) # {} /\ LastOf(marker) = <<>>
FallbackReply == AnswerReply(<<FormatNotice, "\n">> \o Strip(llm_out.content))

Events(e) == {i \in 1..Len(trace) : trace[i].ev = e}

\* C17: a turn makes at most one subprocess.run, and each one comes right
\* after the execute or execute_confirmed call it belongs to; a command not
\* flagged dangerous is run by execute itself, once (when it tokenizes), with
\* requires_confirmation = False and no confirmation prompt; a turn that
\* ends in an answer, a turn the user refused and a turn that is showing the
\* confirmation prompt have made none.
C17_LaunchOnlyWhenExecuted ==
    /\ Cardinality(Events("run")) <= 1
    /\ \A i \in Events("run") :
           /\ i > 1 /\ trace[i - 1].ev \in {"execute", "execute_confirmed"}
           /\ trace[i].text = Expected(tool_type, trace[i - 1].text)
    /\ (Events("suggest") # {} /\ ~reply.dangerous) =>
           /\ reply.type = "command"
           /\ Events("confirm_prompt") = {} /\ Events("confirm") = {}
           /\ Events("execute_confirmed") = {}
           /\ Cardinality(Events("execute")) = 1
           /\ exe_in = [method |-> "execute", command |-> reply.command,
                        is_dangerous |-> FALSE]
           /\ exe_ret.exc = "none" /\ ~exe_ret.requires_confirmation
           /\ ~OpenQuote(reply.command) => Cardinality(Events("run")) = 1
    /\ Events("answer") # {} => (Events("run") = {} /\ Events("execute") = {})
    /\ Answered("no") => Events("run") = {}
    /\ pc = "confirm" => Events("run") = {}

\* C17 witness: a kubectl session ran "kubectl ls" at once for the command
\* "ls", which was not flagged.
C17_Witness ==
    /\ pc = "prompt" /\ reply = CommandReply(<<"ls">>, FALSE) /\ tool_type = "kubectl"
    /\ Events("confirm_prompt") = {}
    /\ \E i \in Events("run") : trace[i].text = <<"kubectl", " ", "ls">>

\* the translation call of the turn at hand raised
TranslationFailed == llm_out.fail /\ Events("answer") # {}

\* C18: in a turn whose translation call raised, process_query returned the
\* error text as an answer, that text was shown, once, the turn called
\* neither execute nor subprocess.run, and the loop is back at the prompt
\* once update_context returned (the turn ends the command only when
\* update_context itself raised).
C18_TranslationFailureHandled ==
    TranslationFailed =>
        /\ reply = AnswerReply(<<LLMErrorNotice, "APIError">>)
        /\ Cardinality(Events("answer")) = 1
        /\ \A i \in Events("answer") : trace[i].text = <<LLMErrorNotice, "APIError">>
        /\ Events("run") = {} /\ Events("execute") = {} /\ Events("execute_confirmed") = {}
        /\ exe_runs = <<>> /\ exe_in = NoArgs
        /\ pc \in {"prompt", "crashed"}
        /\ ctx_ret.exc = "none" => pc = "prompt"
        /\ pc = "crashed" => (last_op = "update" /\ ctx_ret.exc # "none")

\* C18 witness: the translation call raised in a turn of a kubectl session;
\* the loop is at the prompt again and the error text is in the log.
C18_Witness ==
    /\ TranslationFailed /\ pc = "prompt" /\ session.tool = "kubectl"
    /\ file.kind = "list" /\ file.entries # <<>>
    /\ file.entries[Len(file.entries)] =
           Entry("assistant", <<LLMErrorNotice, "APIError">>)

(***************************************************************************)
(* Claims about idle inputs and about the request.                         *)
(***************************************************************************)
\* C19: the step that handles an input line that is empty or equals an exit
\* word (in any letter case) leaves the context file, the configuration and
\* the executor as they were, makes no get_context, translation, execute,
\* subprocess.run or update_context call, and ends at the prompt for the
\* empty line and out of the loop for the exit word.
C19_IdleInputNoEffect ==
    [][(/\ pc = "prompt"
        /\ trace' # <<>> /\ trace'[1].ev = "input"
        /\ (trace'[1].text = <<>> \/ trace'[1].text \in ExitInputs))
       => /\ file' = file /\ cfg_max' = cfg_max
          /\ last_op' = last_op /\ ctx_ret' = ctx_ret
          /\ llm_out' = llm_out /\ request' = <<>>
          /\ exe_in' = exe_in /\ exe_runs' = exe_runs
          /\ \A i \in 1..Len(trace') :
                 trace'[i].ev \notin {"translate", "execute", "execute_confirmed",
                                      "run", "update_context"}
          /\ trace'[1].text = <<>> => pc' = "prompt"
          /\ trace'[1].text \in ExitInputs => pc' = "exited"]_vars

\* C19 witness: the loop ended on "EXIT" after a turn had been recorded, and
\* the log holds that turn.
C19_Witness ==
    /\ pc = "exited" /\ trace[1] = Ev("input", <<"EXIT">>)
    /\ last_op = "update" /\ cfg_max = IntVal(2)
    /\ file.kind = "list" /\ Len(file.entries) = 2
    /\ file.entries[1] = Entry("user", <<"q1">>)

\* what get_context returns for the file as it is: the last maxMessages
\* entries, oldest first; nothing when the log is absent or empty
RecentNow ==
    IF file.kind = "list" /\ file.entries # <<>>
    THEN KeepLast(file.entries, cfg_max.n) ELSE <<>>

\* C20: while a turn waits for the translator, the request in flight is: one
\* system message, whose text names the session's tool; then the entries
\* get_context returns for the log as it is, in their order; then the user
\* message with the turn's query, last.  The log has not been touched by the
\* turn yet, and when the turn before was recorded and maxMessages >= 2, the
\* two entries that turn appended are the last two of the history.
C20_RequestIsPromptHistoryQuery ==
    pc = "translating" =>
        /\ Len(request) = Len(RecentNow) + 2
        /\ request[1].role = "system"
        /\ \E i \in 1..Len(request[1].content) : request[1].content[i] = session.tool
        /\ SubSeq(request, 2, Len(request) - 1) = RecentNow
        /\ request[Len(request)] = Entry("user", final_query)
        /\ ctx_ret.exc = "none" /\ ctx_ret.isNone = (RecentNow = <<>>)
        /\ Events("update_context") = {} /\ last_op = "get"
        /\ (appended # <<>> /\ cfg_max.kind = "int" /\ cfg_max.n >= 2) =>
               SubSeq(request, Len(request) - 2, Len(request) - 1) = appended

\* C20 witness: the second turn's request carries the first turn (query q1,
\* answered) between the system prompt and the new query q2.
C20_Witness ==
    /\ pc = "translating" /\ Len(request) = 4 /\ appended # <<>>
    /\ request[2] = Entry("user", <<"q1">>)
    /\ request[3] = Entry("assistant", <<"hello">>)
    /\ request[4] = Entry("user", <<"q2">>)

(***************************************************************************)
(* Claims about the window setting and the persisted data.                 *)
(***************************************************************************)
\* C21: a get_context call and a change of maxMessages leave the persisted
\* log as it is; the persisted log loses entries only in an update_context or
\* a clear step; and, maxMessages being positive, what get_context returns is
\* the last maxMessages entries of the persisted log, which may hold more.
C21_ReadsAndSettingsLeaveLog ==
    /\ [][last_op' \in {"get", "config"} => file' = file]_vars
    /\ [][Len(PersistedEntries') < Len(PersistedEntries) =>
              last_op' \in {"update", "clear"}]_vars
    /\ []((last_op = "get" /\ PositiveMax /\ ctx_ret.exc = "none" /\ ~ctx_ret.isNone) =>
              ctx_ret.list = KeepLast(PersistedEntries, cfg_max.n))

\* C21 witness: maxMessages was lowered to 1 under a log of four entries or
\* more, and get_context has returned the last entry of the log, which still
\* holds them all.
C21_Witness ==
    /\ last_op = "get" /\ cfg_max = IntVal(1)
    /\ file.kind = "list" /\ Len(file.entries) >= 4
    /\ ctx_ret = Returned(FALSE, <<file.entries[Len(file.entries)]>>)

\* the persisted data is no list of entries: no file, a file that does not
\* parse, or a file that parses to something else
NoLogOnDisk == file.kind \in {"missing", "corrupt", "notlist"}

\* C22: (maxMessages positive) over persisted data that is missing, not
\* parseable, or parseable but no list, get_context returns None without an
\* error, and update_context raises no error of its own (a failed write
\* aside) and, when it returns, leaves a log holding just the new entries.
C22_BadDataReadsAsEmpty ==
    /\ []((last_op = "get" /\ NoLogOnDisk /\ PositiveMax) =>
              ctx_ret = Returned(TRUE, <<>>))
    /\ [][(NoLogOnDisk /\ PositiveMax /\ last_op' = "update") =>
              /\ ctx_ret'.exc \in {"none", "OSError"}
              /\ ctx_ret'.exc = "none" =>
                     file' = ListFile(KeepLast(appended', cfg_max.n))]_vars

\* C23: a failure to write the persisted log is never raised by
\* update_context: the call returns to its caller.
C23_WriteFailureReturned ==
    last_op = "update" => ctx_ret.exc # "OSError"

\* C25: whatever configuration commands have run, the maxMessages that
\* get_max_context_messages returns is an integer and at least 1.
C25_WindowAlwaysPositive ==
    cfg_max.kind = "int" /\ cfg_max.n >= 1

\* C26 as stated: right after clear, a get_context leaves an empty persisted
\* log in place, and an update_context that returns leaves a log holding
\* exactly the two new entries.
C26_NextCallRecreatesLog ==
    [][(last_op = "clear" /\ file = Missing) =>
           /\ last_op' = "get" => file' = ListFile(<<>>)
           /\ (last_op' = "update" /\ ctx_ret'.exc = "none") =>
                  file' = ListFile(appended')]_vars

\* C26: right after clear, a get_context returns None and leaves no persisted
\* log; an update_context that returns leaves a log holding the last
\* maxMessages of the two new entries (both for maxMessages 0) and nothing
\* older; constructing a ContextManager whose write succeeds leaves the empty
\* log.
C26_ClearThenNextCall ==
    [][(last_op = "clear" /\ file = Missing) =>
           /\ last_op' = "get" =>
                  file' = Missing /\ ctx_ret' = Returned(TRUE, <<>>)
           /\ (last_op' = "update" /\ ctx_ret'.exc = "none") =>
                  /\ cfg_max.kind = "int"
                  /\ file' = ListFile(IF cfg_max.n = 0 THEN appended'
                                      ELSE KeepLast(appended', cfg_max.n))
           /\ (last_op' = "init" /\ ctx_ret'.exc = "none") =>
                  file' = ListFile(<<>>)]_vars

\* C26 witness: get_context has run on the store that clear emptied of two
\* entries or more: it returned None and there is still no file.
C26_Witness ==
    /\ last_op = "get" /\ Len(prior) >= 2 /\ appended = <<>>
    /\ file = Missing /\ ctx_ret = Returned(TRUE, <<>>)

\* the roles of h alternate
Alternates(h) == \A i \in 1..(Len(h) - 1) : h[i].role # h[i + 1].role
GotHistory == last_op = "get" /\ ctx_ret.exc = "none" /\ ~ctx_ret.isNone

\* C29 as stated: for a positive maxMessages the history get_context returns
\* begins with a user entry and alternates user, assistant.
C29_HistoryIsWholeTurns ==
    (GotHistory /\ PositiveMax) =>
        ctx_ret.list[1].role = "user" /\ Alternates(ctx_ret.list)

\* C29: the history get_context returns alternates and ends with an assistant
\* entry; it begins with a user entry exactly when its length is even; and
\* under an odd maxMessages with a longer persisted log it begins with the
\* assistant entry of a turn whose user entry was cut off.
C29_HistoryEndsWithWholeTurn ==
    GotHistory =>
        LET h == ctx_ret.list
        IN  /\ Alternates(h)
            /\ h[Len(h)].role = "assistant"
            /\ h[1].role = "user" <=> Len(h) % 2 = 0
            /\ (PositiveMax /\ Len(PersistedEntries) > cfg_max.n) =>
                   (h[1].role = "assistant" <=> cfg_max.n % 2 = 1)

\* C29 witness: under maxMessages 3 the history is the answer of one turn
\* followed by the whole of the next.
C29_Witness ==
    /\ GotHistory /\ cfg_max = IntVal(3) /\ Len(PersistedEntries) > 3
    /\ Len(ctx_ret.list) = 3
    /\ ctx_ret.list[1].role = "assistant" /\ ctx_ret.list[2].role = "user"
    /\ ctx_ret.list[3].role = "assistant"

(***************************************************************************)
(* Claims about the start of chat and the confirmed command.               *)
(***************************************************************************)
\* C27: chat as written (the executor constructed from the tool's name),
\* started with a tool of the configured list and a usable api key, the
\* context file being writable, reaches the loop with the executor's
\* tool_type equal to the requested tool.
C27_StartupReachesLoop ==
    (/\ session.arg = "str"
     /\ session.tool \in session.tools
     /\ session.api_key \notin {"", "your_api_key_here"}
     /\ trace # <<Ev("raise", <<"OSError">>)>>) =>
        /\ pc \notin {"crashed", "refused"}
        /\ tool_type = session.tool

\* the command a confirmation prompt shows, between its heading and its
\* question
EchoedCommand(prompt) == SubSeq(prompt, 4, Len(prompt) - 2)

\* C28: while the chat waits for the user's answer, the command shown in the
\* prompt is the command execute_confirmed would launch, whatever the
\* operating system then answers, and the prefix rule applied to it again
\* leaves it as it is; and once the user has said yes, every command launched
\* in the turn is the command that the prompt shown before it echoed.
C28_ConfirmedCommandIsRun ==
    /\ pc = "confirm" =>
           LET shown == EchoedCommand(exe_ret.output)
           IN  /\ trace[Len(trace)] = Ev("confirm_prompt", exe_ret.output)
               /\ exe_ret.output = ConfirmationPrompt(shown)
               /\ Expected(tool_type, shown) = shown
               /\ \A proc \in ChatProcs :
                      LET x == ExecuteConfirmed(tool_type, reply.command, proc)
                      IN  \A i \in 1..Len(x.runs) : x.runs[i].command = shown
    /\ Answered("yes") =>
           \A i \in Events("run") :
               \E j \in Events("confirm_prompt") :
                   j < i /\ EchoedCommand(trace[j].text) = trace[i].text

\* C28 witness: in a kubectl session the user confirmed "kubectl rm x", shown
\* for the translator's "rm x", and that is what ran.
C28_Witness ==
    /\ Answered("yes") /\ tool_type = "kubectl"
    /\ reply.command = <<"rm", " ", "x">>
    /\ \E j \in Events("confirm_prompt"), i \in Events("run") :
           /\ j < i
           /\ EchoedCommand(trace[j].text) = <<"kubectl", " ", "rm", " ", "x">>
           /\ trace[i].text = <<"kubectl", " ", "rm", " ", "x">>

(***************************************************************************)
(* Claims about two processes on one store.                                *)
(***************************************************************************)
\* process s is between its load and its save, and the list it loaded is
\* still what the file holds
Loaded(s) == upd[s].pc = "loaded"
Fresh(s) == upd[s].context = PersistedEntries
Saves(s) == upd[s].pc = "loaded" /\ upd'[s].pc = "idle"
\* the user entry of process s is in the persisted log
InLog(s) == \E i \in 1..Len(PersistedEntries) :
                PersistedEntries[i] = Entry("user", SessionQuery[s])

\* C24: update_context is a load and a later save.  The list a process
\* loaded stops being what the file holds only through the save of another
\* process, so a process alone never saves over entries it has not seen.  A
\* save that returns writes the last maxMessages of the loaded list and the
\* two new entries: when the list is still what the file holds, nothing is
\* lost but to the window; when it is not, what the other process wrote
\* since is gone from the file.
C24_LoadThenSaveLosesUpdates ==
    /\ [][\A s \in Sessions :
              (Loaded(s) /\ Fresh(s) /\ Loaded(s)' /\ ~Fresh(s)') =>
                  \E o \in Sessions \ {s} : Saves(o)]_vars
    /\ [][\A s \in Sessions :
              (Saves(s) /\ ctx_ret'.exc = "none") =>
                  /\ PersistedEntries' =
                         KeepLast(upd[s].context \o appended', cfg_max.n)
                  /\ Fresh(s) =>
                         PersistedEntries' =
                             KeepLast(PersistedEntries \o appended', cfg_max.n)
                  /\ (~Fresh(s) /\ cfg_max.n > Len(PersistedEntries) + 2) =>
                         PersistedEntries' # PersistedEntries \o appended']_vars

\* C24 witness: both processes loaded the empty log, both saved without an
\* error under a window of 20, and the log holds the turn of s2 alone: the
\* turn of s1 is lost.
C24_Witness ==
    /\ cfg_max = IntVal(DefaultMaxMessages)
    /\ \A s \in Sessions :
           upd[s].pc = "idle" /\ upd[s].ret = "none" /\ upd[s].context = <<>>
    /\ Len(PersistedEntries) = 2
    /\ InLog("s2") /\ ~InLog("s1")

=============================================================================
